---- MODULE Spec2Model ----
(***************************************************************************)
(* NacosServiceManager (nacos_service_manager.py): the process-wide pool   *)
(* of Nacos sub-service handles keyed by a digest of the ClientConfig.     *)
(*                                                                         *)
(* Strings are sequences of one-character strings, so that join, sorted    *)
(* and the delimiters "," and "|" behave as they do in Python.             *)
(***************************************************************************)
EXTENDS Integers, Sequences, FiniteSets, TLC

VARIABLES
    tasks,            \* each caller's get_*_service coroutine: position and locals
    service_pool,     \* _service_pool: the dict's entries, in insertion order
    groups,           \* the service-group dict objects, by object id
    service_locks,    \* _service_locks: config hash -> id of its asyncio.Lock
    locks,            \* the asyncio.Lock objects, by object id
    handles,          \* every create_*_service call made so far, by handle id
    global_config,            \* _global_config
    global_config_loaded,     \* _global_config_loaded
    global_config_manually_set,  \* _global_config_manually_set
    env,              \* the process environment load_config_from_env reads
    cl,               \* the cleanup() coroutine: position and locals
    calls,            \* number of get_*_service calls started
    cfgOps,           \* number of set_global_config / reset_global_config calls made
    api,              \* history: the config last installed by set_global_config,
                      \* whether reset_global_config was the last word on
                      \* the default, and how often the environment has been
                      \* read since the last reset
    hashIn,     \* identity derivation: the pair of ClientConfig values under study
    hashOut,    \* identity derivation: what _get_config_hash returned for each
    hashPc,     \* identity derivation: "edit" until both digests are taken
    instance,         \* NacosServiceManager._instance: 0 for None, else object id
    instance_lock,    \* _instance_lock: 0 when free, else the thread holding it
    initialized,      \* per manager object: its _initialized attribute
    threads,          \* each thread's NacosServiceManager() call: position, self
    initRuns,         \* history: how many times the body of __init__ has run
    adapter,          \* the A2AFastAPIExtensionAdapter under construction / in use
    registries,       \* the registry objects: how register() behaves, its calls
    registry_type,    \* the environment variable A2A_REGISTRY_TYPE
    stats,            \* what the last get_stats() call returned
    envOut            \* what the last load_config_from_env() call returned

hashVars == <<hashIn, hashOut, hashPc>>
singletonVars == <<instance, instance_lock, initialized, threads, initRuns>>
adapterVars == <<adapter, registries, registry_type>>
sideVars == <<hashVars, singletonVars, adapterVars, stats, envOut>>
poolVars == <<tasks, service_pool, groups, service_locks, locks, handles>>
configVars ==
    <<global_config, global_config_loaded, global_config_manually_set, env>>
managerVars == <<poolVars, configVars, cl, calls, cfgOps, api>>
vars == <<managerVars, sideVars>>

\* Bounds of the model.
NumTasks == 2       \* concurrent callers of get_*_service
MaxCalls == 2       \* get_*_service calls started in one run
MaxCleanups == 2    \* cleanup() calls in one run
MaxConfigOps == 2   \* set_global_config / reset_global_config calls in one run
NumThreads == 2     \* threads calling NacosServiceManager() at the same time
MaxRegistries == 2  \* registry objects a caller of the adapter has at hand
MaxHungCalls == 3   \* get_*_service calls made around a construction that hangs
NumHungTasks == 3   \* concurrent callers around a construction that hangs

(***************************************************************************)
(* Python values                                                           *)
(***************************************************************************)

\* Python's None for an optional string attribute.
None == <<"None">>

\* The empty str.
EmptyStr == <<>>

\* `x or ""` for an optional string.
OrEmpty(x) == IF x = None \/ x = EmptyStr THEN EmptyStr ELSE x

\* ord() of the characters the model uses.
CharCode(c) ==
    CASE c = "," -> 44
      [] c = "a" -> 97
      [] c = "b" -> 98
      [] c = "|" -> 124

\* str.__lt__: lexicographic order by code point.
RECURSIVE StrLess(_, _)
StrLess(s, t) ==
    IF t = <<>> THEN FALSE
    ELSE IF s = <<>> THEN TRUE
    ELSE IF Head(s) = Head(t) THEN StrLess(Tail(s), Tail(t))
    ELSE CharCode(Head(s)) < CharCode(Head(t))

\* One insertion step of sorted(): x goes before the first element greater than it.
RECURSIVE SortedInsert(_, _)
SortedInsert(x, lst) ==
    IF lst = <<>> THEN <<x>>
    ELSE IF StrLess(x, Head(lst)) THEN <<x>> \o lst
    ELSE <<Head(lst)>> \o SortedInsert(x, Tail(lst))

\* sorted(list_of_str): a stable ascending sort.
RECURSIVE Sorted(_)
Sorted(lst) ==
    IF lst = <<>> THEN <<>>
    ELSE SortedInsert(lst[Len(lst)], Sorted(SubSeq(lst, 1, Len(lst) - 1)))

\* sep.join(parts)
RECURSIVE Join(_, _)
Join(sep, parts) ==
    IF parts = <<>> THEN <<>>
    ELSE IF Len(parts) = 1 THEN parts[1]
    ELSE parts[1] \o sep \o Join(sep, Tail(parts))

(***************************************************************************)
(* ClientConfig and _get_config_hash                                       *)
(***************************************************************************)

\* A ClientConfig: the attributes _get_config_hash and the pool read.
\* access_key stands for credentials_provider.get_credentials().access_key_id.
ClientConfig(servers, ep, ns, ctx, ak, sk, user, pw) ==
    [server_list |-> servers, endpoint |-> ep, namespace_id |-> ns,
     context_path |-> ctx, access_key |-> ak, secret_key |-> sk,
     username |-> user, password |-> pw]

\* server_str: ",".join(sorted(server_list)) if server_list else ""
ServerStrUnsorted(config) == Join(<<",">>, config.server_list)
ServerStr(config) ==
    IF config.server_list = <<>> THEN EmptyStr
    ELSE Join(<<",">>, Sorted(config.server_list))

\* hash_parts: the six connection-identifying fields, absent ones as "".
HashPartsWithPassword(config) ==
    <<ServerStr(config), OrEmpty(config.endpoint), OrEmpty(config.namespace_id),
      OrEmpty(config.context_path), OrEmpty(config.access_key),
      OrEmpty(config.username), OrEmpty(config.password)>>
HashParts(config) ==
    <<ServerStr(config), OrEmpty(config.endpoint), OrEmpty(config.namespace_id),
      OrEmpty(config.context_path), OrEmpty(config.access_key),
      OrEmpty(config.username)>>

\* hash_string = "|".join(hash_parts)
HashString(config) == Join(<<"|">>, HashParts(config))

\* hashlib.md5(s.encode()).hexdigest()[:16]: a function of the delimited string
\* alone.  The digest is kept abstract and collision-free: two configs get the
\* same digest exactly when their delimited strings are equal.
Md5Hex16(s) == <<"md5">> \o s

\* _get_config_hash(config)
GetConfigHash(config) == Md5Hex16(HashString(config))

(***************************************************************************)
(* Identity derivation on its own: a pair of configs, edited field by      *)
(* field, then digested.                                                   *)
(***************************************************************************)

\* Values an optional string attribute takes.
FieldValues == {None, EmptyStr, <<"a">>, <<"|">>}

\* Values the secret attributes take.
SecretValues == {<<"a">>, <<"b">>}

\* Server lists.
ServerLists ==
    {<<>>, << <<"a">> >>, << <<"b">> >>, << <<"a">>, <<"b">> >>,
     << <<"b">>, <<"a">> >>, << <<"a">>, <<"a">> >>, << <<"b">>, <<"b">> >>}

\* The configs the first of the pair is drawn from.
BaseConfigs ==
    { ClientConfig(s, e, <<"a">>, None, None, <<"a">>, <<"a">>, <<"a">>) :
        s \in {<< <<"a">>, <<"b">> >>, <<>>}, e \in {None, <<"|">>} }

HashFields ==
    {"endpoint", "namespace_id", "context_path", "access_key", "username"}

HashInit ==
    /\ hashIn \in {<<c, c>> : c \in BaseConfigs}
    /\ hashOut = <<None, None>>
    /\ hashPc = "edit"

\* The caller builds the second config with another server list.
EditServers ==
    /\ hashPc = "edit"
    /\ \E s \in ServerLists :
         hashIn' = <<hashIn[1], [hashIn[2] EXCEPT !.server_list = s]>>
    /\ UNCHANGED <<hashOut, hashPc, managerVars,
                   singletonVars, adapterVars, stats, envOut>>

\* The caller builds the second config with another value of one hashed field.
EditField ==
    /\ hashPc = "edit"
    /\ \E f \in HashFields, v \in FieldValues :
         hashIn' = <<hashIn[1], [hashIn[2] EXCEPT ![f] = v]>>
    /\ UNCHANGED <<hashOut, hashPc, managerVars,
                   singletonVars, adapterVars, stats, envOut>>

\* The caller builds the second config with another password or secret key.
EditSecret ==
    /\ hashPc = "edit"
    /\ \E f \in {"password", "secret_key"}, v \in SecretValues :
         hashIn' = <<hashIn[1], [hashIn[2] EXCEPT ![f] = v]>>
    /\ UNCHANGED <<hashOut, hashPc, managerVars,
                   singletonVars, adapterVars, stats, envOut>>

\* _get_config_hash is called on both configs.
Derive ==
    /\ hashPc = "edit"
    /\ hashOut' = <<GetConfigHash(hashIn[1]), GetConfigHash(hashIn[2])>>
    /\ hashPc' = "derived"
    /\ UNCHANGED <<hashIn, managerVars,
                   singletonVars, adapterVars, stats, envOut>>

HashNext == EditServers \/ EditField \/ EditSecret \/ Derive

(***************************************************************************)
(* The environment and load_config_from_env                                *)
(***************************************************************************)

\* The absence of a ClientConfig (client_config=None, _global_config=None).
NoConfig == [none |-> TRUE]

Environ(addr, address, ns, ak, sk, user, pw) ==
    [NACOS_SERVER_ADDR |-> addr, NACOS_SERVER_ADDRESS |-> address,
     NACOS_NAMESPACE_ID |-> ns, NACOS_ACCESS_KEY |-> ak,
     NACOS_SECRET_KEY |-> sk, NACOS_USERNAME |-> user, NACOS_PASSWORD |-> pw]

\* os.getenv(name, default): the default only when the variable is unset.
GetEnv(e, name, default) == IF e[name] = None THEN default ELSE e[name]

\* `a or b` on two optional strings.
OrElse(a, b) == IF a = None \/ a = EmptyStr THEN b ELSE a

\* bool(x) for an optional string.
Truthy(x) == x # None /\ x # EmptyStr

\* s.split(","), as ClientConfigBuilder.server_address does.
RECURSIVE SplitComma(_, _)
SplitComma(s, cur) ==
    IF s = <<>> THEN <<cur>>
    ELSE IF Head(s) = "," THEN <<cur>> \o SplitComma(Tail(s), <<>>)
    ELSE SplitComma(Tail(s), Append(cur, Head(s)))

StrPublic == <<"p", "u", "b", "l", "i", "c">>
StrNacos == <<"n", "a", "c", "o", "s">>

\* load_config_from_env(): [ok |-> FALSE] stands for the ValueError.
LoadConfigFromEnvDefaultAddress(e) ==
    IF Truthy(OrElse(e.NACOS_SERVER_ADDR, e.NACOS_SERVER_ADDRESS))
    THEN [ok |-> TRUE,
          config |-> ClientConfig(
              SplitComma(OrElse(e.NACOS_SERVER_ADDR, e.NACOS_SERVER_ADDRESS), <<>>),
              None, GetEnv(e, "NACOS_NAMESPACE_ID", StrPublic), EmptyStr,
              None, None, StrNacos, StrNacos)]
    ELSE [ok |-> TRUE,
          config |-> ClientConfig(<< <<"a">> >>, None,
                                  GetEnv(e, "NACOS_NAMESPACE_ID", StrPublic),
                                  EmptyStr, None, None, StrNacos, StrNacos)]
LoadConfigFromEnvPreferringPassword(e) ==
    IF ~Truthy(OrElse(e.NACOS_SERVER_ADDR, e.NACOS_SERVER_ADDRESS))
    THEN [ok |-> FALSE, config |-> NoConfig]
    ELSE [ok |-> TRUE,
          config |-> ClientConfig(
              SplitComma(OrElse(e.NACOS_SERVER_ADDR, e.NACOS_SERVER_ADDRESS), <<>>),
              None, GetEnv(e, "NACOS_NAMESPACE_ID", StrPublic), EmptyStr,
              None, None,
              GetEnv(e, "NACOS_USERNAME", StrNacos),
              GetEnv(e, "NACOS_PASSWORD", StrNacos))]
LoadConfigFromEnv(e) ==
    LET server_address == OrElse(e.NACOS_SERVER_ADDR, e.NACOS_SERVER_ADDRESS)
        namespace_id == GetEnv(e, "NACOS_NAMESPACE_ID", StrPublic)
        access_key == e.NACOS_ACCESS_KEY
        secret_key == e.NACOS_SECRET_KEY
    IN  IF ~Truthy(server_address) THEN [ok |-> FALSE, config |-> NoConfig]
        ELSE IF Truthy(access_key) /\ Truthy(secret_key)
        THEN [ok |-> TRUE,
              config |-> ClientConfig(SplitComma(server_address, <<>>), None,
                             namespace_id, EmptyStr, access_key, secret_key,
                             None, None)]
        ELSE [ok |-> TRUE,
              config |-> ClientConfig(SplitComma(server_address, <<>>), None,
                             namespace_id, EmptyStr, None, None,
                             GetEnv(e, "NACOS_USERNAME", StrNacos),
                             GetEnv(e, "NACOS_PASSWORD", StrNacos))]

\* _get_global_config(): the config returned (or the ValueError) and the three
\* attributes as the call leaves them.
GetGlobalConfigIgnoringManual(gc, loaded, manual, e) ==
    LET r == LoadConfigFromEnv(e)
    IN  IF ~r.ok
        THEN [ok |-> FALSE, config |-> NoConfig, gc |-> gc, loaded |-> loaded,
              readEnv |-> TRUE]
        ELSE [ok |-> TRUE, config |-> r.config, gc |-> r.config,
              loaded |-> TRUE, readEnv |-> TRUE]
GetGlobalConfigUncached(gc, loaded, manual, e) ==
    IF manual
    THEN [ok |-> TRUE, config |-> gc, gc |-> gc, loaded |-> TRUE,
          readEnv |-> FALSE]
    ELSE LET r == LoadConfigFromEnv(e)
         IN  IF ~r.ok
             THEN [ok |-> FALSE, config |-> NoConfig, gc |-> gc,
                   loaded |-> loaded, readEnv |-> TRUE]
             ELSE [ok |-> TRUE, config |-> r.config, gc |-> r.config,
                   loaded |-> TRUE, readEnv |-> TRUE]
GetGlobalConfigCachingFailure(gc, loaded, manual, e) ==
    IF loaded
    THEN [ok |-> gc # NoConfig, config |-> gc, gc |-> gc, loaded |-> TRUE,
          readEnv |-> FALSE]
    ELSE IF manual
    THEN [ok |-> TRUE, config |-> gc, gc |-> gc, loaded |-> TRUE,
          readEnv |-> FALSE]
    ELSE LET r == LoadConfigFromEnv(e)
         IN  IF ~r.ok
             THEN [ok |-> FALSE, config |-> NoConfig, gc |-> gc,
                   loaded |-> TRUE, readEnv |-> TRUE]
             ELSE [ok |-> TRUE, config |-> r.config, gc |-> r.config,
                   loaded |-> TRUE, readEnv |-> TRUE]
GetGlobalConfig(gc, loaded, manual, e) ==
    IF loaded
    THEN [ok |-> TRUE, config |-> gc, gc |-> gc, loaded |-> TRUE,
          readEnv |-> FALSE]
    ELSE IF manual
    THEN [ok |-> TRUE, config |-> gc, gc |-> gc, loaded |-> TRUE,
          readEnv |-> FALSE]
    ELSE LET r == LoadConfigFromEnv(e)
         IN  IF ~r.ok
             THEN [ok |-> FALSE, config |-> NoConfig, gc |-> gc,
                   loaded |-> loaded, readEnv |-> TRUE]
             ELSE [ok |-> TRUE, config |-> r.config, gc |-> r.config,
                   loaded |-> TRUE, readEnv |-> TRUE]

(***************************************************************************)
(* The pool: service groups, locks, handles                                *)
(***************************************************************************)

Tasks == 1..NumTasks
Kinds == {"naming", "config", "ai"}

\* What a key of a service-group dict holds, and what a call returns.
Absent == [tag |-> "absent"]
ConfigValue(c) == [tag |-> "ClientConfig", cfg |-> c]
HandleValue(k, id) == [tag |-> "handle", kind |-> k, id |-> id]
NoResult == [tag |-> "none"]
Raised(e) == [tag |-> "raised", exc |-> e]

\* A service-group dict: the keys "config", "naming" and "ai".
EmptyGroup == [config |-> Absent, naming |-> Absent, ai |-> Absent]

\* The dict a get_*_service call creates for a new config hash:
\* get_naming_service and get_ai_service store {"config": config},
\* get_config_service stores {}.
NewGroup(kind, config) ==
    IF kind = "config" THEN EmptyGroup
    ELSE [EmptyGroup EXCEPT !.config = ConfigValue(config)]

\* asyncio.Lock(): unlocked, nobody waiting.
FreeLock == [locked |-> FALSE, waiters |-> <<>>]

\* A dict with no entries.
EmptyMap == [x \in {} |-> 0]

IdleTask ==
    [pc |-> "idle", kind |-> "-", arg |-> NoConfig, config |-> NoConfig,
     hash |-> EmptyStr, grp |-> 0, lock |-> 0, hid |-> 0, ret |-> NoResult,
     readEnv |-> FALSE, n |-> 0]

IdleCleanup ==
    [pc |-> "idle", di_used |-> 0, idx |-> 0, grp |-> 0, tix |-> 0, hid |-> 0,
     cleanup_count |-> 0, failures |-> 0, started |-> 0, last |-> "none",
     seen |-> 0, raced |-> FALSE]

\* The mutable pool state, passed through the steps of one atomic section.
PoolState ==
    [tasks |-> tasks, service_pool |-> service_pool, groups |-> groups,
     service_locks |-> service_locks, locks |-> locks, handles |-> handles]

Commit(s) ==
    /\ tasks' = s.tasks
    /\ service_pool' = s.service_pool
    /\ groups' = s.groups
    /\ service_locks' = s.service_locks
    /\ locks' = s.locks
    /\ handles' = s.handles

\* config_hash in self._service_pool
InPool(p, h) == \E i \in 1..Len(p) : p[i].hash = h

\* self._service_pool[config_hash]
GroupOf(p, h) == p[CHOOSE i \in 1..Len(p) : p[i].hash = h].gid

\* A variant that makes a new lock on every call.
GetLockFresh(s, h) ==
    [s EXCEPT !.locks = Append(@, FreeLock),
              !.service_locks = (h :> (Len(s.locks) + 1)) @@ @]

\* _get_lock(config_hash): the lock is created on first use.
GetLock(s, h) ==
    IF h \in DOMAIN s.service_locks THEN s
    ELSE [s EXCEPT !.locks = Append(@, FreeLock),
                   !.service_locks = (h :> (Len(s.locks) + 1)) @@ @]

\* asyncio.Lock.acquire() returns at once when the lock is unlocked and no
\* waiter is queued; otherwise the caller queues and suspends.
LockAlwaysFree(s, lid) == lid \in 1..Len(s.locks)
LockFree(s, lid) == ~s.locks[lid].locked /\ s.locks[lid].waiters = <<>>

\* A variant of release() that leaves the lock locked.
ReleaseNever(s, lid) == [s EXCEPT !.locks[lid].locked = TRUE]

\* asyncio.Lock.release(): unlocks; the first waiter, if any, is woken.
Release(s, lid) == [s EXCEPT !.locks[lid].locked = FALSE]

Wait(s, t, lid, pc) ==
    [s EXCEPT !.locks[lid].waiters = Append(@, t),
              !.tasks[t].pc = pc, !.tasks[t].lock = lid]

\* return service_group[kind]
Finish(s, t, val) ==
    [s EXCEPT !.tasks[t].pc = "done", !.tasks[t].ret = val,
              !.tasks[t].lock = 0, !.tasks[t].hid = 0]

\* an exception leaves the coroutine
Fail(s, t, e) ==
    [s EXCEPT !.tasks[t].pc = "raised", !.tasks[t].ret = Raised(e),
              !.tasks[t].lock = 0, !.tasks[t].hid = 0]

\* self._service_pool[config_hash] = {...}
CreateGroup(s, t) ==
    LET tk == s.tasks[t]
    IN  [s EXCEPT !.groups = Append(@, NewGroup(tk.kind, tk.config)),
                  !.service_pool =
                      Append(@, [hash |-> tk.hash, gid |-> Len(s.groups) + 1])]

\* A variant that stores the handle in the group before the call returns.
BeginCreatePublishing(s, t, lid) ==
    [s EXCEPT !.handles = Append(@, [kind |-> s.tasks[t].kind,
                                     hash |-> s.tasks[t].hash,
                                     state |-> "creating", closedIn |-> 0]),
              !.groups[GroupOf(s.service_pool, s.tasks[t].hash)][s.tasks[t].kind] =
                  HandleValue(s.tasks[t].kind, Len(s.handles) + 1),
              !.tasks[t].pc = "creating", !.tasks[t].lock = lid,
              !.tasks[t].hid = Len(s.handles) + 1]
\* await Nacos*Service.create_*_service(config), entered holding the lock.
BeginCreate(s, t, lid) ==
    [s EXCEPT !.handles = Append(@, [kind |-> s.tasks[t].kind,
                                     hash |-> s.tasks[t].hash,
                                     state |-> "creating", closedIn |-> 0]),
              !.tasks[t].pc = "creating", !.tasks[t].lock = lid,
              !.tasks[t].hid = Len(s.handles) + 1]

\* A variant that takes the identity's lock before looking at the kind's key.
EnsureKindLockFirst(s, t) ==
    LET tk == s.tasks[t]
        gid == GroupOf(s.service_pool, tk.hash)
        s0 == [s EXCEPT !.tasks[t].grp = gid]
        val == s.groups[gid][tk.kind]
        s1 == GetLock(s0, tk.hash)
        lid == s1.service_locks[tk.hash]
    IN  IF ~LockFree(s1, lid) THEN Wait(s1, t, lid, "wait_kind")
        ELSE IF val # Absent THEN Finish(s1, t, val)
        ELSE BeginCreate([s1 EXCEPT !.locks[lid].locked = TRUE], t, lid)

\* Step 3 of get_*_service: the kind's key of the service group.
EnsureKind(s, t) ==
    LET tk == s.tasks[t]
        gid == GroupOf(s.service_pool, tk.hash)
        s0 == [s EXCEPT !.tasks[t].grp = gid]
        val == s.groups[gid][tk.kind]
    IN  IF val # Absent THEN Finish(s0, t, val)
        ELSE LET s1 == GetLock(s0, tk.hash)
                 lid == s1.service_locks[tk.hash]
             IN  IF LockFree(s1, lid)
                 THEN BeginCreate([s1 EXCEPT !.locks[lid].locked = TRUE], t, lid)
                 ELSE Wait(s1, t, lid, "wait_kind")

\* Step 2 of get_*_service: the service group of the config hash.  With the
\* lock free, acquire, re-check, create and release happen without suspension.
EnsureGroup(s, t) ==
    LET h == s.tasks[t].hash
    IN  IF InPool(s.service_pool, h) THEN EnsureKind(s, t)
        ELSE LET s1 == GetLock(s, h)
                 lid == s1.service_locks[h]
             IN  IF LockFree(s1, lid) THEN EnsureKind(CreateGroup(s1, t), t)
                 ELSE Wait(s1, t, lid, "wait_group")

\* A variant without the second test of the kind's key under the lock.
GrantedNoRecheck(s, t) ==
    LET tk == s.tasks[t]
        lid == tk.lock
        s1 == [s EXCEPT !.locks[lid].locked = TRUE,
                        !.locks[lid].waiters = Tail(@)]
    IN  IF tk.pc = "wait_group"
        THEN LET s2 == IF InPool(s1.service_pool, tk.hash) THEN s1
                       ELSE CreateGroup(s1, t)
             IN  EnsureKind(Release(s2, lid), t)
        ELSE BeginCreate(s1, t, lid)

\* The lock is granted to the first waiter, which runs on from its
\* `async with` to the next suspension.
Granted(s, t) ==
    LET tk == s.tasks[t]
        lid == tk.lock
        s1 == [s EXCEPT !.locks[lid].locked = TRUE,
                        !.locks[lid].waiters = Tail(@)]
    IN  IF tk.pc = "wait_group"
        THEN LET s2 == IF InPool(s1.service_pool, tk.hash) THEN s1
                       ELSE CreateGroup(s1, t)
             IN  EnsureKind(Release(s2, lid), t)
        ELSE LET val == s1.groups[tk.grp][tk.kind]
             IN  IF val = Absent THEN BeginCreate(s1, t, lid)
                 ELSE Finish(Release(s1, lid), t, val)

(***************************************************************************)
(* get_naming_service / get_config_service / get_ai_service                *)
(***************************************************************************)

\* The explicit configs callers pass.  CfgA2 is CfgA with the servers in the
\* other order and another password; CfgB and CfgC differ in namespace and
\* context path.
CfgA == ClientConfig(<< <<"a">>, <<"b">> >>, None, <<"a">>, EmptyStr, None,
                     None, <<"a">>, <<"a">>)
CfgA2 == ClientConfig(<< <<"b">>, <<"a">> >>, None, <<"a">>, EmptyStr, None,
                      None, <<"a">>, <<"b">>)
CfgB == ClientConfig(<< <<"a">> >>, None, <<"b", "|">>, EmptyStr, None, None,
                     <<"a">>, <<"a">>)
CfgC == ClientConfig(<< <<"a">> >>, None, <<"b">>, <<"|">>, None, None,
                     <<"a">>, <<"a">>)
PoolConfigs == {CfgA, CfgA2, CfgB, CfgC}

\* The environments: no server address; one describing CfgA's servers; one
\* using the second spelling and the defaults.
EnvNone == Environ(None, None, None, None, None, None, None)
EnvA == Environ(<<"b", ",", "a">>, None, <<"a">>, None, None, <<"a">>, <<"b">>)
EnvB == Environ(None, <<"b">>, None, None, None, None, None)
Environs == {EnvNone, EnvA, EnvB}

\* A caller invokes get_<kind>_service(arg); the coroutine runs to its first
\* suspension: a queued lock, the create call, a return or a raise.
CallStartWithin(t, kind, arg, max) ==
    /\ tasks[t].pc \in {"idle", "done", "raised"}
    /\ calls < max
    /\ calls' = calls + 1
    /\ LET g == IF arg # NoConfig
                THEN [ok |-> TRUE, config |-> arg, gc |-> global_config,
                      loaded |-> global_config_loaded, readEnv |-> FALSE]
                ELSE GetGlobalConfig(global_config, global_config_loaded,
                                     global_config_manually_set, env)
           s0 == [PoolState EXCEPT
                    !.tasks[t] = [IdleTask EXCEPT !.kind = kind, !.arg = arg,
                                                  !.config = g.config,
                                                  !.readEnv = g.readEnv,
                                                  !.n = calls + 1]]
       IN  /\ global_config' = g.gc
           /\ global_config_loaded' = g.loaded
           /\ IF ~g.ok THEN Commit(Fail(s0, t, "ValueError"))
              ELSE Commit(EnsureGroup(
                       [s0 EXCEPT !.tasks[t].hash = GetConfigHash(g.config)], t))
           /\ api' = IF arg = NoConfig
                     THEN [api EXCEPT !.reset = FALSE,
                                      !.envReads = IF g.readEnv THEN @ + 1 ELSE @]
                     ELSE api
    /\ cl' = [cl EXCEPT !.raced = @ \/ cl.pc # "idle"]
    /\ UNCHANGED <<global_config_manually_set, env, cfgOps, sideVars>>

CallStart(t, kind, arg) == CallStartWithin(t, kind, arg, MaxCalls)

\* The lock a caller queued for is released and it is first in line.
LockGranted(t) ==
    /\ tasks[t].pc \in {"wait_group", "wait_kind"}
    /\ ~locks[tasks[t].lock].locked
    /\ Head(locks[tasks[t].lock].waiters) = t
    /\ Commit(Granted(PoolState, t))
    /\ UNCHANGED <<configVars, cl, calls, cfgOps, api, sideVars>>

\* create_*_service returns: the handle is stored under the kind's key, the
\* lock is released, the stored value is returned.
CreateReturns(t) ==
    /\ tasks[t].pc = "creating"
    /\ LET tk == tasks[t]
           s1 == [PoolState EXCEPT
                    !.handles[tk.hid].state = "live",
                    !.groups[tk.grp][tk.kind] = HandleValue(tk.kind, tk.hid)]
       IN  Commit(Finish(Release(s1, tk.lock), t, s1.groups[tk.grp][tk.kind]))
    /\ UNCHANGED <<configVars, cl, calls, cfgOps, api, sideVars>>

\* create_*_service raises: the lock is released, the exception propagates.
CreateRaises(t) ==
    /\ tasks[t].pc = "creating"
    /\ LET tk == tasks[t]
           s1 == [PoolState EXCEPT !.handles[tk.hid].state = "failed"]
       IN  Commit(Fail(Release(s1, tk.lock), t, "CreateError"))
    /\ UNCHANGED <<configVars, cl, calls, cfgOps, api, sideVars>>

(***************************************************************************)
(* set_global_config / reset_global_config / the environment               *)
(***************************************************************************)

SetGlobalConfig(c) ==
    /\ cfgOps < MaxConfigOps
    /\ cfgOps' = cfgOps + 1
    /\ global_config' = c
    /\ global_config_manually_set' = TRUE
    /\ global_config_loaded' = TRUE
    /\ api' = [api EXCEPT !.installed = c, !.reset = FALSE]
    /\ UNCHANGED <<poolVars, env, cl, calls, sideVars>>

\* A variant that also drops the pooled groups.
ResetGlobalConfigClearingPool ==
    /\ cfgOps < MaxConfigOps
    /\ cfgOps' = cfgOps + 1
    /\ global_config' = NoConfig
    /\ global_config_loaded' = FALSE
    /\ global_config_manually_set' = FALSE
    /\ api' = [installed |-> NoConfig, reset |-> TRUE, envReads |-> 0]
    /\ service_pool' = <<>>
    /\ UNCHANGED <<tasks, groups, service_locks, locks, handles, env, cl,
                   calls, sideVars>>

ResetGlobalConfig ==
    /\ cfgOps < MaxConfigOps
    /\ cfgOps' = cfgOps + 1
    /\ global_config' = NoConfig
    /\ global_config_loaded' = FALSE
    /\ global_config_manually_set' = FALSE
    /\ api' = [installed |-> NoConfig, reset |-> TRUE, envReads |-> 0]
    /\ UNCHANGED <<poolVars, env, cl, calls, sideVars>>

\* The process environment changes (os.environ is written, a test patches it).
EnvChange(e) ==
    /\ e # env
    /\ env' = e
    /\ UNCHANGED <<poolVars, global_config, global_config_loaded,
                   global_config_manually_set, cl, calls, cfgOps, api, sideVars>>

(***************************************************************************)
(* cleanup                                                                 *)
(***************************************************************************)

\* for service_type in ["ai", "config", "naming"]
TypeOrder == <<"ai", "config", "naming">>

\* hasattr(service, "close") or hasattr(service, "shutdown"): the Nacos
\* services have shutdown(); a ClientConfig has neither.
HasClose(val) == val.tag = "handle"

\* cleanup() returns or raises: its locals die.  `last` records how it ended
\* and `seen` how many get_*_service calls had been started when it began;
\* `failures` counts, during a run, the closes that raised; `raced` records
\* that some cleanup() has run while a get_*_service call was in flight.
CleanupEnds(c, how) ==
    [IdleCleanup EXCEPT !.started = c.started, !.last = how, !.seen = c.seen,
                        !.raced = c.raced]

\* self._service_pool.clear(); self._service_locks.clear()
ClearKeepsLocks(s) == [s EXCEPT !.service_pool = <<>>]
ClearKeepsPool(s) == [s EXCEPT !.service_locks = EmptyMap]
Clear(s) == [s EXCEPT !.service_pool = <<>>, !.service_locks = EmptyMap]

\* cleanup() runs on from its current position to the next await of a close,
\* or to its end.  The dict iterator raises RuntimeError when the pool's size
\* is not the size it had when the loop began.
RECURSIVE CleanupRun(_, _)
CleanupRun(s, c) ==
    IF c.grp # 0 /\ c.tix <= Len(TypeOrder)
    THEN LET val == s.groups[c.grp][TypeOrder[c.tix]]
         IN  IF val = Absent THEN CleanupRun(s, [c EXCEPT !.tix = @ + 1])
             ELSE IF HasClose(val)
             THEN [s |-> [s EXCEPT !.handles[val.id].closedIn = c.started],
                   c |-> [c EXCEPT !.pc = "closing", !.hid = val.id]]
             ELSE CleanupRun(s, [c EXCEPT !.tix = @ + 1,
                                          !.cleanup_count = @ + 1])
    ELSE IF Len(s.service_pool) # c.di_used
    THEN [s |-> s, c |-> CleanupEnds(c, "RuntimeError")]
    ELSE IF c.idx >= Len(s.service_pool)
    THEN [s |-> Clear(s), c |-> CleanupEnds(c, "ok")]
    ELSE CleanupRun(s, [c EXCEPT !.idx = @ + 1,
                                 !.grp = s.service_pool[c.idx + 1].gid,
                                 !.tix = 1])

\* except Exception: the failure is logged and the loop goes on.
AfterCloseFailureRaises(s, c) == [s |-> s, c |-> CleanupEnds(c, "Exception")]
AfterCloseFailure(s, c) ==
    CleanupRun(s, [c EXCEPT !.pc = "run", !.hid = 0, !.tix = @ + 1,
                            !.failures = @ + 1])

\* Some get_*_service call is between its start and its return or raise.
CallInFlight == \E t \in Tasks : tasks[t].pc \notin {"idle", "done", "raised"}

\* cleanup() is called and runs to its first await or to its end.
CleanupStart ==
    /\ cl.pc = "idle"
    /\ cl.started < MaxCleanups
    /\ LET c0 == [IdleCleanup EXCEPT !.pc = "run",
                                     !.started = cl.started + 1,
                                     !.seen = calls,
                                     !.raced = cl.raced \/ CallInFlight,
                                     !.di_used = Len(service_pool)]
           r == CleanupRun(PoolState, c0)
       IN  Commit(r.s) /\ cl' = r.c
    /\ UNCHANGED <<configVars, calls, cfgOps, api, sideVars>>

\* await service.close() / service.shutdown() returns.
CloseReturns ==
    /\ cl.pc = "closing"
    /\ LET r == CleanupRun(PoolState,
                           [cl EXCEPT !.pc = "run", !.hid = 0, !.tix = @ + 1,
                                      !.cleanup_count = @ + 1])
       IN  Commit(r.s) /\ cl' = r.c
    /\ UNCHANGED <<configVars, calls, cfgOps, api, sideVars>>

\* await service.close() / service.shutdown() raises.
CloseRaises ==
    /\ cl.pc = "closing"
    /\ LET r == AfterCloseFailure(PoolState, cl)
       IN  Commit(r.s) /\ cl' = r.c
    /\ UNCHANGED <<configVars, calls, cfgOps, api, sideVars>>

(***************************************************************************)
(* NacosServiceManager(): __new__ and __init__ called from several threads *)
(***************************************************************************)

Threads == 1..NumThreads

\* A thread that has not yet called NacosServiceManager().
NewThread == [pc |-> "line74", self |-> 0]

\* The with-block of __new__ is left: the lock is released.
ReleaseInstanceLock == instance_lock' = 0

\* __new__, line 74: the unlocked test of cls._instance.
New74(t) ==
    /\ threads[t].pc = "line74"
    /\ threads' = [threads EXCEPT
                     ![t].pc = IF instance = 0 THEN "line75" ELSE "line79"]
    /\ UNCHANGED <<instance, instance_lock, initialized, initRuns,
                   managerVars, hashVars, adapterVars, stats, envOut>>

\* __new__, line 75: with cls._instance_lock -- entered when the lock is free.
New75(t) ==
    /\ threads[t].pc = "line75"
    /\ instance_lock = 0
    /\ instance_lock' = t
    /\ threads' = [threads EXCEPT ![t].pc = "line76"]
    /\ UNCHANGED <<instance, initialized, initRuns,
                   managerVars, hashVars, adapterVars, stats, envOut>>

\* __new__, line 76: the test of cls._instance under the lock.
New76(t) ==
    /\ threads[t].pc = "line76"
    /\ IF instance = 0
       THEN /\ threads' = [threads EXCEPT ![t].pc = "line77"]
            /\ UNCHANGED instance_lock
       ELSE /\ threads' = [threads EXCEPT ![t].pc = "line79"]
            /\ ReleaseInstanceLock
    /\ UNCHANGED <<instance, initialized, initRuns,
                   managerVars, hashVars, adapterVars, stats, envOut>>

\* __new__, line 77: the object is allocated and stored in cls._instance; it
\* has no _initialized attribute yet.
New77(t) ==
    /\ threads[t].pc = "line77"
    /\ initialized' = Append(initialized, "unset")
    /\ instance' = Len(initialized) + 1
    /\ threads' = [threads EXCEPT ![t].pc = "line78"]
    /\ UNCHANGED <<instance_lock, initRuns,
                   managerVars, hashVars, adapterVars, stats, envOut>>

\* __new__, line 78: cls._instance._initialized = False; the with-block ends.
New78(t) ==
    /\ threads[t].pc = "line78"
    /\ initialized' = [initialized EXCEPT ![instance] = "False"]
    /\ ReleaseInstanceLock
    /\ threads' = [threads EXCEPT ![t].pc = "line79"]
    /\ UNCHANGED <<instance, initRuns,
                   managerVars, hashVars, adapterVars, stats, envOut>>

\* __new__, line 79: return cls._instance; __init__ is then called on it.
New79(t) ==
    /\ threads[t].pc = "line79"
    /\ threads' = [threads EXCEPT ![t].pc = "line84", ![t].self = instance]
    /\ UNCHANGED <<instance, instance_lock, initialized, initRuns,
                   managerVars, hashVars, adapterVars, stats, envOut>>

\* __init__, line 84: if self._initialized: return.  Reading the attribute
\* before line 78 has set it raises AttributeError.
Init84(t) ==
    /\ threads[t].pc = "line84"
    /\ threads' = [threads EXCEPT
                     ![t].pc = CASE initialized[threads[t].self] = "unset"
                                        -> "AttributeError"
                                 [] initialized[threads[t].self] = "True"
                                        -> "done"
                                 [] OTHER -> "line88"]
    /\ UNCHANGED <<instance, instance_lock, initialized, initRuns,
                   managerVars, hashVars, adapterVars, stats, envOut>>

\* __init__, lines 88-90: the global-config attributes are set to their
\* initial values.
Init88(t) ==
    /\ threads[t].pc = "line88"
    /\ global_config' = NoConfig
    /\ global_config_loaded' = FALSE
    /\ global_config_manually_set' = FALSE
    /\ initRuns' = initRuns + 1
    /\ threads' = [threads EXCEPT ![t].pc = "line93"]
    /\ UNCHANGED <<instance, instance_lock, initialized, poolVars, env, cl,
                   calls, cfgOps, api, hashVars, adapterVars, stats, envOut>>

\* __init__, lines 93-97: the pool and the lock map are set to empty dicts.
Init93(t) ==
    /\ threads[t].pc = "line93"
    /\ service_pool' = <<>>
    /\ service_locks' = EmptyMap
    /\ threads' = [threads EXCEPT ![t].pc = "line100"]
    /\ UNCHANGED <<instance, instance_lock, initialized, initRuns, tasks,
                   groups, locks, handles, configVars, cl, calls, cfgOps, api,
                   hashVars, adapterVars, stats, envOut>>

\* __init__, line 100: self._initialized = True.
Init100(t) ==
    /\ threads[t].pc = "line100"
    /\ initialized' = [initialized EXCEPT ![threads[t].self] = "True"]
    /\ threads' = [threads EXCEPT ![t].pc = "done"]
    /\ UNCHANGED <<instance, instance_lock, initRuns,
                   managerVars, hashVars, adapterVars, stats, envOut>>

\* Some thread holds the manager its NacosServiceManager() call returned.
SomeThreadHasManager == \E t \in Threads : threads[t].pc = "done"

\* The manager has been constructed once, by a thread that has finished.
SingletonReady ==
    /\ instance = 1
    /\ instance_lock = 0
    /\ initialized = <<"True">>
    /\ threads = [t \in Threads |-> [pc |-> "done", self |-> 1]]
    /\ initRuns = 1

\* No manager has been constructed.
SingletonInit ==
    /\ instance = 0
    /\ instance_lock = 0
    /\ initialized = <<>>
    /\ threads = [t \in Threads |-> NewThread]
    /\ initRuns = 0

(***************************************************************************)
(* A2AFastAPIExtensionAdapter: the registry argument and add_endpoint      *)
(***************************************************************************)

\* The registry objects a caller can pass, by object id; 0 stands for an
\* object that is not an A2ARegistry (a str, a dict).
RegistryIds == 1..MaxRegistries
Items == 0..MaxRegistries

\* isinstance(x, A2ARegistry)
IsRegistry(x) == x \in RegistryIds

\* Lists of at most n items.
RECURSIVE ListsUpTo(_)
ListsUpTo(n) ==
    IF n = 0 THEN {<<>>}
    ELSE LET shorter == ListsUpTo(n - 1)
         IN  shorter \cup {Append(l, x) : l \in shorter, x \in Items}

\* The values of the `registry` argument: None, one registry, a list, or a
\* value of another type.
RegistryArgs ==
    {[shape |-> "None"], [shape |-> "other"]}
    \cup {[shape |-> "registry", item |-> r] : r \in RegistryIds}
    \cup {[shape |-> "list", items |-> l] : l \in ListsUpTo(MaxRegistries + 1)}

\* __init__, lines 126-146: self._registry, or the TypeError.
InitRegistryUnchecked(arg) ==
    CASE arg.shape = "None" -> [ok |-> TRUE, registry |-> <<>>]
      [] arg.shape = "registry" -> [ok |-> TRUE, registry |-> <<arg.item>>]
      [] arg.shape = "list" -> [ok |-> TRUE, registry |-> arg.items]
      [] OTHER -> [ok |-> FALSE, registry |-> <<>>]
InitRegistryFromEnv(arg) ==
    CASE arg.shape = "None" ->
            [ok |-> TRUE,
             registry |-> IF registry_type = None THEN <<>> ELSE <<1>>]
      [] arg.shape = "registry" -> [ok |-> TRUE, registry |-> <<arg.item>>]
      [] arg.shape = "list" ->
            IF \A i \in 1..Len(arg.items) : IsRegistry(arg.items[i])
            THEN [ok |-> TRUE, registry |-> arg.items]
            ELSE [ok |-> FALSE, registry |-> <<>>]
      [] OTHER -> [ok |-> FALSE, registry |-> <<>>]
InitRegistry(arg) ==
    CASE arg.shape = "None" -> [ok |-> TRUE, registry |-> <<>>]
      [] arg.shape = "registry" -> [ok |-> TRUE, registry |-> <<arg.item>>]
      [] arg.shape = "list" ->
            IF \A i \in 1..Len(arg.items) : IsRegistry(arg.items[i])
            THEN [ok |-> TRUE, registry |-> arg.items]
            ELSE [ok |-> FALSE, registry |-> <<>>]
      [] OTHER -> [ok |-> FALSE, registry |-> <<>>]

\* The fields of the dataclass DeployProperties: the keywords its generated
\* __init__ accepts.
DeployPropertiesFields == {"host", "port", "root_path", "base_url", "extra"}

\* DeployProperties(**kw): a keyword that is not a field is a TypeError.
DeployPropertiesInit(kw) == kw \subseteq DeployPropertiesFields

\* _build_deploy_properties: DeployProperties(host=, port=, path=, extra=).
\* TRUE when the call returns, FALSE when it raises.
BuildDeployProperties == DeployPropertiesInit({"host", "port", "path", "extra"})

\* The for-loop of _register_with_all_registries: register() is called on each
\* registry in turn; an exception it raises is logged and swallowed.
RECURSIVE RegisterLoop(_, _)
RegisterLoop(regs, list) ==
    IF list = <<>> THEN regs
    ELSE LET r == Head(list)
         IN  RegisterLoop(
                 [regs EXCEPT ![r].calls = @ + 1,
                              ![r].warned = IF regs[r].raises THEN @ + 1 ELSE @],
                 Tail(list))

\* _register_with_all_registries: the deploy properties are built before the
\* loop, outside its try.
RegisterWithAllRegistries(regs, list) ==
    IF BuildDeployProperties
    THEN [ok |-> TRUE, regs |-> RegisterLoop(regs, list)]
    ELSE [ok |-> FALSE, regs |-> regs]

\* `built` counts the calls of _build_deploy_properties.
NoAdapter == [pc |-> "none", arg |-> [shape |-> "None"], registry |-> <<>>,
              mounted |-> FALSE, built |-> 0]

\* A2AFastAPIExtensionAdapter(agent_name, agent_description, registry=arg)
AdapterConstruct(arg) ==
    /\ adapter.pc = "none"
    /\ LET r == InitRegistry(arg)
       IN  adapter' = [adapter EXCEPT
                         !.pc = IF r.ok THEN "ready" ELSE "TypeError",
                         !.arg = arg,
                         !.registry = r.registry]
    /\ UNCHANGED <<registries, registry_type, managerVars, hashVars,
                   singletonVars, stats, envOut>>

\* adapter.add_endpoint(app, func): the routes are mounted, then the agent is
\* registered when the registry list is not empty.
AddEndpoint ==
    /\ adapter.pc = "ready"
    /\ LET r == IF adapter.registry # <<>>
                THEN RegisterWithAllRegistries(registries, adapter.registry)
                ELSE [ok |-> TRUE, regs |-> registries]
       IN  /\ adapter' = [adapter EXCEPT
                            !.pc = IF r.ok THEN "served" ELSE "raised",
                            !.mounted = TRUE,
                            !.built = IF adapter.registry # <<>> THEN @ + 1
                                      ELSE @]
           /\ registries' = r.regs
    /\ UNCHANGED <<registry_type, managerVars, hashVars, singletonVars, stats,
                   envOut>>

\* No adapter is in play.
AdapterIdle ==
    /\ adapter = NoAdapter
    /\ registry_type = None
    /\ registries = [r \in RegistryIds |->
                        [raises |-> FALSE, calls |-> 0, warned |-> 0]]

\* The values of A2A_REGISTRY_TYPE: unset, or naming a registry type.
RegistryTypes == {None, <<"n", "a", "c", "o", "s">>}

\* The registries whose register() raises are any subset; the environment
\* may name a registry type.
AdapterInit ==
    /\ adapter = NoAdapter
    /\ registry_type \in RegistryTypes
    /\ registries \in [RegistryIds -> {[raises |-> b, calls |-> 0, warned |-> 0] :
                                           b \in BOOLEAN}]

(***************************************************************************)
(* get_stats                                                               *)
(***************************************************************************)

\* No get_stats() call has returned yet.
NoStats == [config_count |-> 0, total_services |-> 0, configs |-> <<>>,
            taken |-> FALSE]

\* services = [k for k in service_group.keys() if k != "config"], as the set
\* of those keys.
StatsServices(group) == {k \in {"naming", "ai"} : group[k] # Absent}

\* total_services: the lengths of the services lists, summed over the pool.
RECURSIVE StatsTotal(_, _)
StatsTotal(p, g) ==
    IF p = <<>> THEN 0
    ELSE Cardinality(StatsServices(g[Head(p).gid])) + StatsTotal(Tail(p), g)

\* get_stats(): "server" and "namespace" are read off the value stored under
\* "config" (described_by), or are "unknown" when the key is absent.
GetStats(p, g) ==
    [config_count |-> Len(p),
     total_services |-> StatsTotal(p, g),
     configs |-> [i \in 1..Len(p) |->
                    [hash |-> p[i].hash,
                     described_by |-> g[p[i].gid].config,
                     services |-> StatsServices(g[p[i].gid])]],
     taken |-> TRUE]

\* NacosServiceManager.get_stats() is called.
GetStatsCall ==
    /\ stats' = GetStats(service_pool, groups)
    /\ UNCHANGED <<managerVars, hashVars, singletonVars, adapterVars, envOut>>

(***************************************************************************)
(* load_config_from_env on its own                                         *)
(***************************************************************************)

\* What an environment variable holds: unset, empty, or a value.
EnvValues == {None, EmptyStr, <<"a">>}

\* The names load_config_from_env reads.
EnvNames ==
    {"NACOS_SERVER_ADDR", "NACOS_SERVER_ADDRESS", "NACOS_NAMESPACE_ID",
     "NACOS_ACCESS_KEY", "NACOS_SECRET_KEY", "NACOS_USERNAME",
     "NACOS_PASSWORD"}

\* os.environ[name] = v, or del os.environ[name].
EnvSet ==
    /\ envOut = NoResult
    /\ \E name \in EnvNames, v \in EnvValues :
         /\ env[name] # v
         /\ env' = [env EXCEPT ![name] = v]
    /\ UNCHANGED <<poolVars, global_config, global_config_loaded,
                   global_config_manually_set, cl, calls, cfgOps, api,
                   hashVars, singletonVars, adapterVars, stats, envOut>>

\* NacosServiceManager.load_config_from_env() is called.
LoadFromEnv ==
    /\ envOut = NoResult
    /\ envOut' = LoadConfigFromEnv(env)
    /\ UNCHANGED <<managerVars, hashVars, singletonVars, adapterVars, stats>>

(***************************************************************************)
(* Specifications                                                          *)
(***************************************************************************)

PoolInitFor(callers) ==
    /\ tasks = [t \in callers |-> IdleTask]
    /\ service_pool = <<>>
    /\ groups = <<>>
    /\ service_locks = EmptyMap
    /\ locks = <<>>
    /\ handles = <<>>
    /\ global_config = NoConfig
    /\ global_config_loaded = FALSE
    /\ global_config_manually_set = FALSE
    /\ cl = IdleCleanup
    /\ calls = 0
    /\ cfgOps = 0
    /\ api = [installed |-> NoConfig, reset |-> FALSE, envReads |-> 0]

PoolInit == PoolInitFor(Tasks)

HashIdle ==
    /\ hashIn = <<NoConfig, NoConfig>>
    /\ hashOut = <<None, None>>
    /\ hashPc = "off"

\* The parts of the program a specification leaves alone.
SideIdle ==
    /\ SingletonReady
    /\ AdapterIdle
    /\ stats = NoStats
    /\ envOut = NoResult

Init == PoolInit /\ env = EnvNone /\ HashIdle /\ SideIdle

\* Callers are interchangeable: they are numbered in the order of their first
\* calls.
InOrder(t) == \A u \in Tasks : u < t => tasks[u].pc # "idle"

\* No get_*_service call is between its start and its return or raise.
NoCallInFlight == ~CallInFlight

\* Callers pass explicit configs and run concurrently with one another;
\* cleanup() is called, as its contract asks, when no get_*_service call is in
\* flight, and no call starts until it has ended.
GetService(t, k, c) == cl.pc = "idle" /\ InOrder(t) /\ CallStart(t, k, c)

Cleanup == NoCallInFlight /\ CleanupStart

Next ==
    \/ \E t \in Tasks, k \in Kinds, c \in PoolConfigs : GetService(t, k, c)
    \/ \E t \in Tasks : LockGranted(t)
    \/ \E t \in Tasks : CreateReturns(t)
    \/ \E t \in Tasks : CreateRaises(t)
    \/ Cleanup
    \/ CloseReturns
    \/ CloseRaises

Spec == Init /\ [][Next]_vars

\* Default-config resolution: one caller makes its calls one after another,
\* with or without an explicit config, while the default is set and reset and
\* the environment changes.
InitConfig == PoolInit /\ env \in Environs /\ HashIdle /\ SideIdle

NextConfig ==
    \/ \E k \in Kinds, c \in {CfgA, CfgB, NoConfig} : CallStart(1, k, c)
    \/ CreateReturns(1)
    \/ CreateRaises(1)
    \/ \E c \in {CfgA, CfgB} : SetGlobalConfig(c)
    \/ ResetGlobalConfig
    \/ \E e \in Environs : EnvChange(e)

SpecConfig == InitConfig /\ [][NextConfig]_vars

InitHash == PoolInit /\ env = EnvNone /\ HashInit /\ SideIdle

SpecHash == InitHash /\ [][HashNext]_vars

\* Several threads construct the manager at once; a thread that has its
\* manager installs a default config.
InitSingleton ==
    /\ PoolInit /\ env = EnvNone /\ HashIdle
    /\ SingletonInit /\ AdapterIdle /\ stats = NoStats /\ envOut = NoResult

InstallDefault(c) == SomeThreadHasManager /\ SetGlobalConfig(c)

NextSingleton ==
    \/ \E t \in Threads :
          \/ New74(t) \/ New75(t) \/ New76(t) \/ New77(t) \/ New78(t)
          \/ New79(t) \/ Init84(t) \/ Init88(t) \/ Init93(t) \/ Init100(t)
    \/ \E c \in {CfgA, CfgB} : InstallDefault(c)

SpecSingleton == InitSingleton /\ [][NextSingleton]_vars

\* An adapter is constructed with some registry argument and add_endpoint is
\* called on it.
InitAdapter ==
    /\ PoolInit /\ env = EnvNone /\ HashIdle
    /\ SingletonReady /\ AdapterInit /\ stats = NoStats /\ envOut = NoResult

NextAdapter ==
    \/ \E arg \in RegistryArgs : AdapterConstruct(arg)
    \/ AddEndpoint

SpecAdapter == InitAdapter /\ [][NextAdapter]_vars

\* One caller makes get_*_service calls whose constructors succeed, and
\* get_stats() is called in between.
NextStats ==
    \/ \E k \in Kinds, c \in PoolConfigs : CallStart(1, k, c)
    \/ CreateReturns(1)
    \/ GetStatsCall

SpecStats == Init /\ [][NextStats]_vars

\* load_config_from_env() is called in an environment built variable by
\* variable.
InitEnv == PoolInit /\ env = EnvNone /\ HashIdle /\ SideIdle

NextEnv == EnvSet \/ LoadFromEnv

SpecEnv == InitEnv /\ [][NextEnv]_vars

\* get_*_service calls and cleanup() interleave freely: a call may start,
\* wait for a lock or construct while cleanup() is suspended in a close, and
\* cleanup() may start while calls are in flight.
RaceCall(t, k, c) == InOrder(t) /\ CallStart(t, k, c)

NextRace ==
    \/ \E t \in Tasks, k \in Kinds, c \in {CfgA, CfgB} : RaceCall(t, k, c)
    \/ \E t \in Tasks : LockGranted(t)
    \/ \E t \in Tasks : CreateReturns(t)
    \/ \E t \in Tasks : CreateRaises(t)
    \/ CleanupStart
    \/ CloseReturns
    \/ CloseRaises

SpecRace == Init /\ [][NextRace]_vars

\* Concurrent callers and no cleanup(), under the scheduling asyncio gives:
\* a coroutine woken by a lock release runs, and every create_*_service call
\* returns or raises.
ConcurrentCall(t, k, c) == InOrder(t) /\ CallStart(t, k, c)

ConstructionEnds(t) == CreateReturns(t) \/ CreateRaises(t)

NextLive ==
    \/ \E t \in Tasks, k \in Kinds, c \in {CfgA, CfgB} : ConcurrentCall(t, k, c)
    \/ \E t \in Tasks : LockGranted(t)
    \/ \E t \in Tasks : CreateReturns(t)
    \/ \E t \in Tasks : CreateRaises(t)

SpecLive ==
    /\ Init
    /\ [][NextLive]_vars
    /\ \A t \in Tasks : WF_vars(LockGranted(t))
    /\ \A t \in Tasks : WF_vars(ConstructionEnds(t))

\* A connection attempt under CfgA's identity may hang: its create_*_service
\* call never returns.  The other constructions return or raise, and woken
\* coroutines run.
HungIdentity == GetConfigHash(CfgA)

HungTasks == 1..NumHungTasks

\* Each caller makes one call, the callers in the order of their numbers.
HungCall(t, k, c) ==
    /\ tasks[t].pc = "idle"
    /\ \A u \in HungTasks : u < t => tasks[u].pc # "idle"
    /\ CallStartWithin(t, k, c, MaxHungCalls)

\* The awaited create_*_service call of task t turns out never to return.
Hangs(t) ==
    /\ tasks[t].pc = "creating"
    /\ tasks[t].hash = HungIdentity
    /\ handles[tasks[t].hid].state = "creating"
    /\ handles' = [handles EXCEPT ![tasks[t].hid].state = "hung"]
    /\ UNCHANGED <<tasks, service_pool, groups, service_locks, locks,
                   configVars, cl, calls, cfgOps, api, sideVars>>

NotHung(t) ==
    tasks[t].pc = "creating" /\ handles[tasks[t].hid].state # "hung"

ReturnsUnlessHung(t) == NotHung(t) /\ CreateReturns(t)

RaisesUnlessHung(t) == NotHung(t) /\ CreateRaises(t)

InitHung == PoolInitFor(HungTasks) /\ env = EnvNone /\ HashIdle /\ SideIdle

NextHung ==
    \/ \E t \in HungTasks, k \in Kinds, c \in {CfgA, CfgB} : HungCall(t, k, c)
    \/ \E t \in HungTasks : LockGranted(t)
    \/ \E t \in HungTasks : Hangs(t)
    \/ \E t \in HungTasks : ReturnsUnlessHung(t)
    \/ \E t \in HungTasks : RaisesUnlessHung(t)

SpecHung ==
    /\ InitHung
    /\ [][NextHung]_vars
    /\ \A t \in HungTasks : WF_vars(LockGranted(t))
    /\ \A t \in HungTasks :
           WF_vars(ReturnsUnlessHung(t) \/ RaisesUnlessHung(t))

(***************************************************************************)
(* Properties                                                              *)
(***************************************************************************)

\* The elements of a sequence.
Range(q) == {q[i] : i \in 1..Len(q)}

\* Two server lists hold the same addresses the same number of times.
SamePermutation(p, q) ==
    /\ Len(p) = Len(q)
    /\ \A x \in Range(p) \cup Range(q) :
         Cardinality({i \in 1..Len(p) : p[i] = x})
             = Cardinality({i \in 1..Len(q) : q[i] = x})

\* Two optional strings match: equal, or each absent or empty.
SameOrAbsent(x, y) == x = y \/ ({x, y} \subseteq {None, EmptyStr})

\* The configs differ at most in the order of the servers, in the secrets and
\* in absent against empty optional fields.
SameButOrderAndSecrets(c, d) ==
    /\ SamePermutation(c.server_list, d.server_list)
    /\ c.namespace_id = d.namespace_id
    /\ SameOrAbsent(c.endpoint, d.endpoint)
    /\ SameOrAbsent(c.context_path, d.context_path)
    /\ SameOrAbsent(c.access_key, d.access_key)
    /\ SameOrAbsent(c.username, d.username)

\* The data model's equivalence: server address set, endpoint, namespace,
\* context path, access-key identifier and username all match.
FieldsMatch(c, d) ==
    /\ Range(c.server_list) = Range(d.server_list)
    /\ SameOrAbsent(c.namespace_id, d.namespace_id)
    /\ SameOrAbsent(c.endpoint, d.endpoint)
    /\ SameOrAbsent(c.context_path, d.context_path)
    /\ SameOrAbsent(c.access_key, d.access_key)
    /\ SameOrAbsent(c.username, d.username)

\* create_<k>_service calls made so far under config hash h.
Constructions(h, k) ==
    {i \in 1..Len(handles) : handles[i].hash = h /\ handles[i].kind = k}

Done(t) == tasks[t].pc = "done"

\* C1: with no cleanup and no failing constructor, the callers of one kind with
\* one config see exactly one constructor call for their (identity, kind) and
\* receive the identical instance.  (Refuted: get_config_service after
\* get_naming_service returns without any constructor call.)
C1_OneConstructionOneInstance ==
    cl.started = 0 =>
        \A t \in Tasks :
            (/\ Done(t)
             /\ \A i \in Constructions(tasks[t].hash, tasks[t].kind) :
                    handles[i].state # "failed")
            => /\ Cardinality(Constructions(tasks[t].hash, tasks[t].kind)) = 1
               /\ \A u \in Tasks :
                      (/\ Done(u)
                       /\ tasks[u].kind = tasks[t].kind
                       /\ tasks[u].config = tasks[t].config)
                      => tasks[u].ret = tasks[t].ret

\* C2: whatever was requested before under the identity, a call that returns
\* returns a handle made by its own kind's constructor, never the stored
\* ClientConfig.  (Refuted: the key "config" holds the ClientConfig.)
C2_ReturnsHandleOfOwnKind ==
    \A t \in Tasks :
        Done(t) => tasks[t].ret.tag = "handle" /\ tasks[t].ret.kind = tasks[t].kind

\* C3: _get_config_hash gives the same digest for two configs that differ only
\* in the order of the server list, in password and secret key, and in optional
\* fields being absent against empty.
C3_HashIgnoresOrderSecretsAbsence ==
    (hashPc = "derived" /\ SameButOrderAndSecrets(hashIn[1], hashIn[2]))
        => hashOut[1] = hashOut[2]

C3_Witness ==
    /\ hashPc = "derived"
    /\ hashIn[1].server_list # hashIn[2].server_list
    /\ SamePermutation(hashIn[1].server_list, hashIn[2].server_list)
    /\ hashIn[1].password # hashIn[2].password
    /\ hashIn[1].secret_key # hashIn[2].secret_key
    /\ hashIn[1].endpoint = None /\ hashIn[2].endpoint = EmptyStr
    /\ hashIn[1].namespace_id = hashIn[2].namespace_id
    /\ hashIn[1].username = hashIn[2].username
    /\ SameOrAbsent(hashIn[1].context_path, hashIn[2].context_path)
    /\ SameOrAbsent(hashIn[1].access_key, hashIn[2].access_key)
    /\ hashOut[1] = hashOut[2]

\* C4: two configs get the same pooling key if and only if their server address
\* set, endpoint, namespace, context path, access key and username all match.
\* (Refuted: "|" inside a field shifts the field boundaries of the joined key.)
C4_SameKeyIffFieldsMatch ==
    hashPc = "derived"
        => ((hashOut[1] = hashOut[2]) <=> FieldsMatch(hashIn[1], hashIn[2]))

\* C5: before any cleanup, two returned calls of one kind whose configs differ
\* only in server order and secrets used one service group and got the same
\* value, at most one construction succeeded for them, and a call that comes
\* after such a returned call starts no construction.
C5_State ==
    \A t, u \in Tasks :
        (/\ Done(t) /\ Done(u)
         /\ tasks[t].kind = tasks[u].kind
         /\ SameButOrderAndSecrets(tasks[t].config, tasks[u].config))
        => /\ tasks[t].grp = tasks[u].grp
           /\ tasks[t].ret = tasks[u].ret
           /\ Cardinality({i \in 1..Len(service_pool) :
                  service_pool[i].hash \in {tasks[t].hash, tasks[u].hash}}) = 1
           /\ Cardinality({i \in 1..Len(handles) :
                  /\ handles[i].kind = tasks[t].kind
                  /\ handles[i].hash \in {tasks[t].hash, tasks[u].hash}
                  /\ handles[i].state = "live"}) <= 1

C5_EquivalentConfigsShareGroup ==
    [][/\ cl'.started = 0 => C5_State'
       /\ cl.started = 0 =>
            \A t \in Tasks :
                (tasks'[t].pc = "creating" /\ tasks[t].pc # "creating")
                => ~\E u \in Tasks \ {t} :
                       /\ Done(u)
                       /\ tasks[u].kind = tasks'[t].kind
                       /\ SameButOrderAndSecrets(tasks[u].config, tasks'[t].config)]_vars

C5_Witness ==
    /\ cl.started = 0
    /\ Done(1) /\ Done(2)
    /\ tasks[1].config = CfgA /\ tasks[2].config = CfgA2
    /\ tasks[1].kind = "naming" /\ tasks[2].kind = "naming"
    /\ tasks[1].ret = tasks[2].ret
    /\ tasks[1].ret.tag = "handle"

\* C6: calls with configs whose fields do not match never share a service
\* group or a returned value.  (Refuted through C4: two such configs can have
\* the same key.)
C6_NonEquivalentConfigsShareNothing ==
    \A t, u \in Tasks :
        (Done(t) /\ Done(u) /\ ~FieldsMatch(tasks[t].config, tasks[u].config))
        => tasks[t].grp # tasks[u].grp /\ tasks[t].ret # tasks[u].ret

\* A step in which the caller starts a call without an explicit config.
DefaultCall == calls' = calls + 1 /\ tasks'[1].arg = NoConfig

\* C7: while a config installed by set_global_config is in force, a call with
\* no explicit config uses it and does not read the environment; the first
\* such call after reset_global_config reads the environment: it uses the
\* config derived from it, or raises when there is none to derive.
C7_DefaultPrecedence ==
    [][DefaultCall =>
        /\ api.installed # NoConfig =>
              /\ tasks'[1].config = api.installed
              /\ ~tasks'[1].readEnv
              /\ tasks'[1].pc # "raised"
        /\ api.reset =>
              /\ tasks'[1].readEnv
              /\ IF LoadConfigFromEnv(env).ok
                 THEN tasks'[1].config = LoadConfigFromEnv(env).config
                 ELSE tasks'[1].ret = Raised("ValueError")]_vars

C7_Witness ==
    /\ Done(1)
    /\ tasks[1].arg = NoConfig
    /\ api.installed = CfgB
    /\ tasks[1].config = CfgB
    /\ env = EnvA

\* Neither spelling of the server-address variable is set.
NoServerAddress(e) ==
    ~Truthy(e.NACOS_SERVER_ADDR) /\ ~Truthy(e.NACOS_SERVER_ADDRESS)

\* The call raised the configuration error and left pool and lock map alone.
FailsCleanly ==
    /\ tasks'[1].pc = "raised"
    /\ tasks'[1].ret = Raised("ValueError")
    /\ UNCHANGED <<service_pool, groups, service_locks, locks, handles>>

\* C8 as stated: with no manual config and no server-address variable, a call
\* with no explicit config raises the configuration error and leaves the pool
\* and the lock map as they were.  (Refuted: a default derived from the
\* environment earlier is cached and used.)
C8_Original ==
    [][(DefaultCall /\ api.installed = NoConfig /\ NoServerAddress(env))
        => FailsCleanly]_vars

\* C8 as amended: the same when, in addition, no environment-derived default is
\* cached.
C8_FailsWithoutCachedDefault ==
    [][(/\ DefaultCall
        /\ api.installed = NoConfig
        /\ ~global_config_loaded
        /\ NoServerAddress(env))
        => FailsCleanly]_vars

C8_Witness ==
    /\ tasks[1].pc = "raised"
    /\ tasks[1].ret = Raised("ValueError")
    /\ tasks[1].arg = NoConfig
    /\ service_pool # <<>>
    /\ DOMAIN service_locks # {}

\* The handles stored in the groups of the pool.
PooledHandles ==
    {groups[service_pool[i].gid][k].id :
        <<i, k>> \in {<<j, m>> \in (1..Len(service_pool)) \X Kinds :
                         groups[service_pool[j].gid][m].tag = "handle"}}

\* A step in which a cleanup() call ends.
CleanupEndsStep ==
    cl'.pc = "idle" /\ (cl.pc = "closing" \/ cl'.started > cl.started)

C10_SecondCleanupIsNoOp ==
    [][(/\ cl.pc = "idle"
        /\ cl.started >= 1
        /\ cl'.started = cl.started + 1
        /\ calls = cl.seen)
        => /\ cl'.pc = "idle"
           /\ cl'.last = "ok"
           /\ handles' = handles
           /\ service_pool' = <<>>
           /\ DOMAIN service_locks' = {}]_vars

C10_Witness ==
    /\ cl.pc = "idle"
    /\ cl.started = 2
    /\ cl.last = "ok"
    /\ handles # <<>>
    /\ \A i \in 1..Len(handles) :
           handles[i].state = "live" /\ handles[i].closedIn = 1

\* A step in which the first get_*_service call made after a cleanup() returns
\* to caller t, for a config hash that was pooled before that cleanup.
FirstCallAfterCleanupReturns(t) ==
    /\ cl.started >= 1
    /\ cl.pc = "idle"
    /\ calls' = cl.seen + 1
    /\ tasks'[t].n = calls'
    /\ tasks'[t] # tasks[t]
    /\ tasks'[t].pc = "done"
    /\ \E i \in 1..Len(handles) :
           handles[i].hash = tasks'[t].hash /\ i # tasks[t].hid

\* C11: when cleanup() has ended the pool is empty, and the next call for a
\* config that was pooled before makes a new group with a new construction:
\* the handle it returns was constructed by this call and closed by no cleanup.
C11_RecreatedAfterCleanup ==
    [][/\ CleanupEndsStep => service_pool' = <<>>
       /\ \A t \in Tasks :
            FirstCallAfterCleanupReturns(t) =>
                /\ tasks[t].pc = "creating"
                /\ tasks'[t].ret = HandleValue(tasks[t].kind, tasks[t].hid)
                /\ handles'[tasks[t].hid].closedIn = 0
                /\ handles'[tasks[t].hid].state = "live"
                /\ Len(service_pool') = 1
                /\ \A i \in 1..Len(handles) :
                       handles[i].closedIn >= 1 => i # tasks'[t].ret.id]_vars

C11_Witness ==
    /\ cl.started = 1 /\ cl.pc = "idle"
    /\ calls = cl.seen + 1
    /\ Len(handles) = 2
    /\ handles[1].hash = handles[2].hash
    /\ handles[1].kind = handles[2].kind
    /\ handles[1].closedIn = 1 /\ handles[2].closedIn = 0
    /\ \E t \in Tasks : Done(t) /\ tasks[t].ret = HandleValue(handles[2].kind, 2)

\* C12: however the threads interleave, every NacosServiceManager() call
\* returns the one instance, the body of __init__ runs once, and a config
\* installed through the manager is not reset by a construction still under
\* way.  (Refuted: __init__ tests and sets _initialized outside the lock.)
C12_OneManagerInitialisedOnce ==
    /\ \A t \in Threads :
          /\ threads[t].pc # "AttributeError"
          /\ threads[t].pc = "done" => threads[t].self = instance
    /\ Len(initialized) <= 1
    /\ initRuns <= 1
    /\ api.installed # NoConfig =>
          /\ global_config = api.installed
          /\ global_config_manually_set
          /\ global_config_loaded

\* Some construction of kind k under config hash h has raised.
HasFailed(h, k) ==
    \E i \in 1..Len(handles) :
        handles[i].hash = h /\ handles[i].kind = k /\ handles[i].state = "failed"

\* The constructor's failure reaches the caller, the lock is released and
\* nothing is stored under the kind's key.
FailurePropagates(t) ==
    (tasks[t].pc = "creating" /\ tasks'[t].pc = "raised")
    => /\ tasks'[t].ret = Raised("CreateError")
       /\ ~locks'[tasks[t].lock].locked
       /\ groups'[tasks[t].grp][tasks[t].kind] = Absent

\* A call for an (identity, kind) whose construction raised before goes to the
\* constructor again (at once, or after queueing for the lock).
FailureNotCached(t) ==
    (/\ calls' = calls + 1
     /\ tasks'[t].n = calls'
     /\ HasFailed(tasks'[t].hash, tasks'[t].kind)
     /\ ~\E i \in 1..Len(handles) :
            /\ handles[i].hash = tasks'[t].hash
            /\ handles[i].kind = tasks'[t].kind
            /\ handles[i].state # "failed")
    => tasks'[t].pc \in {"creating", "wait_kind", "wait_group"}

\* A call of another kind under an identity where a construction raised, when
\* it returns, returns a handle of its own kind.
OtherKindsObtainable(t) ==
    (/\ tasks'[t].pc = "done"
     /\ tasks'[t] # tasks[t]
     /\ \E k \in Kinds \ {tasks'[t].kind} : HasFailed(tasks'[t].hash, k))
    => /\ tasks'[t].ret.tag = "handle"
       /\ tasks'[t].ret.kind = tasks'[t].kind

\* C13: with no cleanup so far, a raising constructor is reported to the
\* caller, releases the lock, publishes nothing, leaves the other kinds of the
\* identity obtainable, and is called again by the next call for the same
\* (identity, kind).  (Refuted through C2: get_config_service after a failed
\* get_naming_service returns the stored ClientConfig.)
C13_ConstructorFailure ==
    [][cl.started = 0 =>
         \A t \in Tasks :
             /\ FailurePropagates(t)
             /\ FailureNotCached(t)
             /\ OtherKindsObtainable(t)]_vars

\* The number of times registry r occurs in a list.
Occurrences(list, r) == Cardinality({i \in 1..Len(list) : list[i] = r})

\* C14: add_endpoint on an adapter with a non-empty registry list ends without
\* an exception, having called register() once on every registry of the list,
\* whichever of them raise.  (Refuted: _build_deploy_properties passes path=
\* to DeployProperties, which has no such field.)
C14_AllRegistriesTried ==
    [][(adapter.pc = "ready" /\ adapter'.pc # "ready" /\ adapter.registry # <<>>)
        => /\ adapter'.pc = "served"
           /\ \A r \in RegistryIds :
                  registries'[r].calls =
                      registries[r].calls + Occurrences(adapter.registry, r)]_vars

\* The registry argument has one of the accepted shapes.
AcceptedShape(arg) ==
    \/ arg.shape \in {"None", "registry"}
    \/ /\ arg.shape = "list"
       /\ \A i \in 1..Len(arg.items) : IsRegistry(arg.items[i])

\* C15: constructing the adapter raises TypeError exactly when the registry
\* argument is neither None, nor a registry, nor a list of registries only;
\* when it raises, no register() call has been made and no route is mounted;
\* when it does not, the adapter holds the registries passed.
C15_RegistryArgumentValidated ==
    /\ adapter.pc = "TypeError" =>
          /\ ~AcceptedShape(adapter.arg)
          /\ ~adapter.mounted
          /\ \A r \in RegistryIds : registries[r].calls = 0
    /\ adapter.pc \in {"ready", "served", "raised"} =>
          /\ AcceptedShape(adapter.arg)
          /\ adapter.registry =
                 CASE adapter.arg.shape = "None" -> <<>>
                   [] adapter.arg.shape = "registry" -> <<adapter.arg.item>>
                   [] OTHER -> adapter.arg.items

C15_Witness ==
    /\ adapter.pc = "TypeError"
    /\ adapter.arg.shape = "list"
    /\ Len(adapter.arg.items) = 2
    /\ IsRegistry(adapter.arg.items[1])
    /\ ~IsRegistry(adapter.arg.items[2])

\* The state of the default config, read off the three attributes.
ConfigState ==
    CASE global_config_loaded /\ global_config_manually_set
             /\ global_config # NoConfig -> "MANUAL"
      [] global_config_loaded /\ ~global_config_manually_set
             /\ global_config # NoConfig -> "ENV_DERIVED"
      [] ~global_config_loaded /\ ~global_config_manually_set
             /\ global_config = NoConfig -> "UNSET"
      [] OTHER -> "invalid"

\* The state is one of the three; MANUAL is entered only by set_global_config;
\* reset_global_config leads to UNSET; in MANUAL and in ENV_DERIVED a call
\* with no explicit config uses the cached config without reading the
\* environment.
ConfigStateMachine ==
    /\ ConfigState' # "invalid"
    /\ (ConfigState' = "MANUAL" /\ ConfigState # "MANUAL")
           => (cfgOps' = cfgOps + 1 /\ api'.installed = global_config')
    /\ (cfgOps' = cfgOps + 1 /\ api'.reset) => ConfigState' = "UNSET"
    /\ (DefaultCall /\ ConfigState \in {"MANUAL", "ENV_DERIVED"})
           => /\ ~tasks'[1].readEnv
              /\ tasks'[1].config = global_config
              /\ UNCHANGED <<global_config, global_config_loaded,
                             global_config_manually_set>>

\* C16 as stated: the state machine above, and the environment is read at most
\* once between two resets.  (Refuted: a derivation that fails caches nothing,
\* and the next call reads the environment again.)
C16_Original ==
    [][ConfigStateMachine /\ api'.envReads <= 1]_vars

\* C16 as amended: the state machine above, and the environment is read only
\* in state UNSET, a read that succeeds leading to ENV_DERIVED and a read that
\* fails leaving UNSET.
C16_EnvReadOnlyWhenUnset ==
    [][/\ ConfigStateMachine
       /\ (DefaultCall /\ tasks'[1].readEnv)
              => /\ ConfigState = "UNSET"
                 /\ IF LoadConfigFromEnv(env).ok
                    THEN /\ ConfigState' = "ENV_DERIVED"
                         /\ global_config' = LoadConfigFromEnv(env).config
                    ELSE ConfigState' = "UNSET"]_vars

C16_Witness ==
    /\ ConfigState = "ENV_DERIVED"
    /\ Done(1)
    /\ tasks[1].arg = NoConfig
    /\ ~tasks[1].readEnv
    /\ tasks[1].config = global_config
    /\ LoadConfigFromEnv(env).ok
    /\ LoadConfigFromEnv(env).config # global_config
    /\ api.envReads = 1

\* The handles stored in group g.
HandlesIn(g) == {k \in Kinds : groups[g][k].tag = "handle"}

\* C17: get_stats() changes nothing in the pool and reports the number of
\* service groups, the number of handles constructed in them, and for each
\* group exactly the kinds constructed in it, a config service included.
\* (Refuted: keys other than "config" are counted, and the config service is
\* stored under "config".)
C17_StatsCountEveryHandle ==
    [][stats' # stats =>
         /\ UNCHANGED managerVars
         /\ stats'.config_count = Len(service_pool)
         /\ stats'.total_services = Cardinality(PooledHandles)
         /\ \A i \in 1..Len(service_pool) :
                /\ stats'.configs[i].hash = service_pool[i].hash
                /\ stats'.configs[i].services = HandlesIn(service_pool[i].gid)]_vars

\* The variable is present in the environment, whatever it holds.
IsSet(x) == x # None

\* What load_config_from_env derived when it returned: namespace with its
\* default, and the credentials of the branch taken.
DerivedAsClaimed(e, c, keyPair) ==
    /\ c.namespace_id = IF IsSet(e.NACOS_NAMESPACE_ID)
                        THEN e.NACOS_NAMESPACE_ID ELSE StrPublic
    /\ IF keyPair
       THEN /\ c.access_key = e.NACOS_ACCESS_KEY
            /\ c.secret_key = e.NACOS_SECRET_KEY
            /\ c.username = None /\ c.password = None
       ELSE /\ c.access_key = None /\ c.secret_key = None
            /\ c.username = IF IsSet(e.NACOS_USERNAME)
                            THEN e.NACOS_USERNAME ELSE StrNacos
            /\ c.password = IF IsSet(e.NACOS_PASSWORD)
                            THEN e.NACOS_PASSWORD ELSE StrNacos

Constructed(id) == handles[id].state = "live"

\* C19: every handle stored in a ServiceGroup, and every handle a get_service
\* call has returned, is one whose construction call has returned
\* successfully; a construction still in progress or failed is in no group
\* and in no caller's hands.
C19_PublishedAfterConstruction ==
    /\ \A g \in 1..Len(groups) : \A k \in Kinds :
           groups[g][k].tag = "handle" => Constructed(groups[g][k].id)
    /\ \A t \in Tasks :
           (tasks[t].pc = "done" /\ tasks[t].ret.tag = "handle")
               => Constructed(tasks[t].ret.id)

\* A construction is in progress while a later caller of the same identity
\* and kind has looked into the group, found the key absent, and waits for the
\* identity's lock.
C19_Witness ==
    \E t, u \in Tasks :
        /\ tasks[t].pc = "creating"
        /\ handles[tasks[t].hid].state = "creating"
        /\ tasks[u].pc = "wait_kind"
        /\ tasks[u].hash = tasks[t].hash
        /\ tasks[u].kind = tasks[t].kind
        /\ tasks[u].lock = tasks[t].lock
        /\ groups[tasks[t].grp][tasks[t].kind] = Absent

\* The tasks whose create_*_service call for identity h is in progress.
Constructing(h) == {t \in Tasks : tasks[t].pc = "creating" /\ tasks[t].hash = h}

\* The handles published so far for identity h and kind k.
PublishedFor(h, k) ==
    {i \in 1..Len(handles) :
        handles[i].hash = h /\ handles[i].kind = k /\ handles[i].state = "live"}

\* C20: as long as no cleanup has been started, at most one construction is
\* in progress per identity, the task constructing holds the one lock the lock
\* map has for that identity, and at most one handle of each kind has been
\* published for the identity.
C20_OneConstructionPerIdentity ==
    cl.started = 0 =>
        /\ \A t \in Tasks :
               tasks[t].pc = "creating" =>
                   /\ Constructing(tasks[t].hash) = {t}
                   /\ tasks[t].hash \in DOMAIN service_locks
                   /\ service_locks[tasks[t].hash] = tasks[t].lock
                   /\ locks[tasks[t].lock].locked
        /\ \A i \in 1..Len(handles) :
               Cardinality(PublishedFor(handles[i].hash, handles[i].kind)) <= 1

\* One caller is constructing a handle while a caller for another kind of the
\* same identity waits for the identity's lock.
C20_Witness ==
    /\ cl.started = 0
    /\ \E t, u \in Tasks :
           /\ tasks[t].pc = "creating"
           /\ tasks[u].pc = "wait_kind"
           /\ tasks[u].hash = tasks[t].hash
           /\ tasks[u].kind # tasks[t].kind
           /\ tasks[u].lock = tasks[t].lock
           /\ locks[tasks[t].lock].waiters = <<u>>

\* The handles of identity h and kind k that a get_*_service call has returned
\* and that no cleanup() has tried to close.
ReturnedUnclosed(h, k) ==
    {i \in 1..Len(handles) :
        /\ handles[i].hash = h /\ handles[i].kind = k
        /\ handles[i].state = "live" /\ handles[i].closedIn = 0}

\* At most one returned, unclosed handle per (identity, kind).
OneUnclosedInstance ==
    \A i \in 1..Len(handles) :
        Cardinality(ReturnedUnclosed(handles[i].hash, handles[i].kind)) <= 1

\* C25 as stated: in every interleaving of get_*_service calls with cleanup(),
\* the handles of one (identity, kind) that have been returned to callers and
\* have not had a close attempted are one and the same instance.
\* (Refuted: a construction in flight when cleanup() clears the pool is
\* published into the orphaned group and returned, and the next call
\* constructs another.)
C25_Original == OneUnclosedInstance

\* C25 as amended: the same, as long as no cleanup() has run while a
\* get_*_service call was in flight (cleanup() began with no call in flight
\* and no call began before it ended).
C25_OneUnclosedInstanceWhenDrained == ~cl.raced => OneUnclosedInstance

\* A cleanup() that ran with no call in flight has closed a handle, and a
\* later call has constructed and returned another for the same identity and
\* kind.
C25_Witness ==
    /\ ~cl.raced
    /\ cl.pc = "idle" /\ cl.started >= 1
    /\ \E i, j \in 1..Len(handles) :
           /\ handles[i].hash = handles[j].hash
           /\ handles[i].kind = handles[j].kind
           /\ handles[i].state = "live" /\ handles[i].closedIn >= 1
           /\ handles[j].state = "live" /\ handles[j].closedIn = 0

\* The step in which cleanup() executes _service_pool.clear().
ClearsPool == cl'.last = "ok" /\ CleanupEndsStep

\* C26: when cleanup() clears the pool, every handle then in the pool has had
\* its close or shutdown attempted by this cleanup; and cleanup() never ends
\* by raising, whatever get_*_service calls publish while it is suspended in
\* a close.
C26_ClearedHandlesWereClosed ==
    [][/\ ClearsPool =>
            \A id \in PooledHandles : handles'[id].closedIn = cl'.started
       /\ CleanupEndsStep => cl'.last = "ok"]_vars

\* The step is not the one in which cleanup() clears pool and lock map.
OutsideCleanupClear == ~ClearsPool

\* C23: a lock map entry appears only when _get_lock is first called for an
\* identity; in every step other than cleanup's clear, each entry of the lock
\* map stays and keeps its lock object; and every identity with a group in the
\* pool has an entry in the lock map.
C23_LocksLazyAndStable ==
    [][/\ OutsideCleanupClear =>
            \A h \in DOMAIN service_locks :
                h \in DOMAIN service_locks' /\ service_locks'[h] = service_locks[h]
       /\ \A h \in DOMAIN service_locks' \ DOMAIN service_locks :
            /\ \E t \in Tasks : tasks'[t].hash = h /\ tasks'[t] # tasks[t]
            /\ service_locks'[h] = Len(locks')
            /\ Len(locks') = Len(locks) + 1
       /\ \A i \in 1..Len(service_pool') :
            service_pool'[i].hash \in DOMAIN service_locks']_vars

\* An identity's lock has outlived a whole get_*_service call and is used
\* again by a later call that has to create another kind.
C23_Witness ==
    \E t, u \in Tasks :
        /\ t # u
        /\ tasks[t].pc = "done" /\ tasks[t].ret.tag = "handle"
        /\ tasks[u].pc = "creating"
        /\ tasks[u].hash = tasks[t].hash
        /\ tasks[u].n > tasks[t].n
        /\ service_locks[tasks[u].hash] = tasks[u].lock
        /\ Len(locks) = 1

\* C22: every ServiceGroup in the pool holds, under a key of its own, the
\* ClientConfig of the identity, whichever get_*_service call created the
\* group; its sub-service handles are held under the kinds' keys.
C22_GroupRecordsConfig ==
    \A i \in 1..Len(service_pool) :
        LET group == groups[service_pool[i].gid]
        IN  /\ group.config.tag = "ClientConfig"
            /\ GetConfigHash(group.config.cfg) = service_pool[i].hash

GlobalConfigOp == cfgOps' = cfgOps + 1

\* A get_*_service call begins with an explicit config.
ExplicitCall == calls' = calls + 1 /\ tasks'[1].arg # NoConfig

\* The call that begins finds a handle of its kind pooled under its identity.
FindsPooledHandle ==
    /\ calls' = calls + 1
    /\ tasks'[1].pc # "raised"
    /\ InPool(service_pool, tasks'[1].hash)
    /\ groups[GroupOf(service_pool, tasks'[1].hash)][tasks'[1].kind].tag = "handle"

\* C27: set_global_config and reset_global_config change neither the pool,
\* its groups and handles, nor the lock map; a call that finds a handle pooled
\* under its identity, whatever default was in force when it was made, gets
\* that handle without a construction; and a call with an explicit config
\* leaves the three global-config attributes as they were and does not read
\* the environment.
C27_FrameOfConfigOperations ==
    [][/\ GlobalConfigOp =>
            UNCHANGED <<tasks, service_pool, groups, service_locks, locks,
                        handles>>
       /\ FindsPooledHandle =>
            /\ tasks'[1].pc = "done"
            /\ tasks'[1].ret =
                   groups[GroupOf(service_pool, tasks'[1].hash)][tasks'[1].kind]
            /\ UNCHANGED <<service_pool, groups, service_locks, locks, handles>>
       /\ ExplicitCall =>
            /\ UNCHANGED <<global_config, global_config_loaded,
                           global_config_manually_set, env>>
            /\ ~tasks'[1].readEnv
            /\ api'.envReads = api.envReads]_vars

\* The handle a default call constructed is still pooled after the default
\* has been reset.
C27_Witness ==
    /\ api.reset
    /\ tasks[1].arg = NoConfig
    /\ tasks[1].pc = "done" /\ tasks[1].ret.tag = "handle"
    /\ InPool(service_pool, tasks[1].hash)
    /\ groups[GroupOf(service_pool, tasks[1].hash)][tasks[1].kind] = tasks[1].ret
    /\ handles[tasks[1].ret.id].state = "live"
    /\ tasks[1].hash \in DOMAIN service_locks

\* The call that begins is a default call whose environment derivation fails.
DerivationFails == DefaultCall /\ tasks'[1].readEnv /\ tasks'[1].pc = "raised"

\* C28: a failed environment derivation raises the configuration error and
\* leaves the global-config state UNSET; in state UNSET every default call
\* reads the environment again, and when a server address is there it
\* succeeds: the call goes on with the derived config, which becomes the
\* cached default.
C28_FailedDerivationNotCached ==
    [][/\ DerivationFails =>
            /\ ConfigState = "UNSET" /\ ConfigState' = "UNSET"
            /\ NoServerAddress(env)
            /\ tasks'[1].ret = Raised("ValueError")
       /\ (DefaultCall /\ ConfigState = "UNSET") =>
            /\ tasks'[1].readEnv
            /\ api'.envReads = api.envReads + 1
            /\ ~NoServerAddress(env) =>
                  /\ tasks'[1].pc # "raised"
                  /\ tasks'[1].config = LoadConfigFromEnv(env).config
                  /\ global_config' = tasks'[1].config
                  /\ ConfigState' = "ENV_DERIVED"]_vars

\* A default call failed, the environment then gained a server address, and
\* the next default call, with no reset in between, derived the config.
C28_Witness ==
    /\ api.envReads = 2
    /\ ~api.reset
    /\ ConfigState = "ENV_DERIVED"
    /\ tasks[1].n = 2
    /\ tasks[1].arg = NoConfig
    /\ tasks[1].readEnv
    /\ tasks[1].pc \in {"creating", "done"}
    /\ tasks[1].config = global_config

\* The call of task t is suspended: queued for a lock or in a constructor.
InFlight(t) == tasks[t].pc \in {"wait_group", "wait_kind", "creating"}

\* The call of task t has returned a handle or raised.
Ended(t) ==
    \/ tasks[t].pc = "done" /\ tasks[t].ret.tag = "handle"
    \/ tasks[t].pc = "raised"

\* A lock is held only by a call that is inside its constructor, and no call
\* queues for a lock it holds itself.
LocksHeldOnlyWhileConstructing ==
    \A l \in 1..Len(locks) :
        /\ locks[l].locked =>
               \E t \in Tasks : tasks[t].pc = "creating" /\ tasks[t].lock = l
        /\ \A i \in 1..Len(locks[l].waiters) :
               /\ tasks[locks[l].waiters[i]].pc \in {"wait_group", "wait_kind"}
               /\ tasks[locks[l].waiters[i]].lock = l

\* C29: with no cleanup, every construction ending and woken coroutines being
\* run, every suspended get_*_service call eventually returns a handle or
\* raises; a lock is held only during a construction (it is released when the
\* construction returns and when it raises), and its holder is never among
\* its waiters.
C29_EveryCallEnds ==
    /\ []LocksHeldOnlyWhileConstructing
    /\ \A t \in Tasks : InFlight(t) ~> Ended(t)

\* A caller is queued behind a construction of another caller.
C29_Witness ==
    \E t, u \in Tasks :
        /\ tasks[t].pc = "creating"
        /\ tasks[u].pc = "wait_kind"
        /\ tasks[u].lock = tasks[t].lock
        /\ locks[tasks[t].lock].locked
        /\ Head(locks[tasks[t].lock].waiters) = u
        /\ cl.started = 0

\* A construction under identity h hangs.
HungUnder(h) ==
    \E i \in 1..Len(handles) : handles[i].hash = h /\ handles[i].state = "hung"

\* The call that begins asks, under the hung identity, for a kind whose
\* handle is in the group.
AsksConstructedKind(t) ==
    /\ calls' = calls + 1
    /\ tasks'[t].n = calls'
    /\ tasks'[t].hash = HungIdentity
    /\ InPool(service_pool, HungIdentity)
    /\ groups[GroupOf(service_pool, HungIdentity)][tasks'[t].kind].tag = "handle"

\* (a) A call that begins while a construction under I hangs, for a kind whose
\* handle is in I's group, returns that handle at once and touches no lock.
ConstructedKindUnaffected ==
    [][\A t \in HungTasks :
          (HungUnder(HungIdentity) /\ AsksConstructedKind(t)) =>
              /\ tasks'[t].pc = "done"
              /\ tasks'[t].ret =
                     groups[GroupOf(service_pool, HungIdentity)][tasks'[t].kind]
              /\ UNCHANGED <<locks, service_locks, handles>>]_vars

\* (b) Every suspended call under another identity ends.
OtherIdentitiesEnd ==
    \A t \in HungTasks :
        (InFlight(t) /\ tasks[t].hash # HungIdentity) ~> Ended(t)

\* The calls of the hung identity that are queued for its lock.
WaitingUnderHung ==
    {t \in HungTasks : /\ tasks[t].pc \in {"wait_group", "wait_kind"}
                       /\ tasks[t].hash = HungIdentity}

\* C21 as stated: (a), (b), and (c) while a construction under I hangs, the
\* calls waiting under I are calls whose kind is not constructed under I.
\* (Refuted: a call queued for the lock before its kind was constructed by a
\* caller ahead of it stays queued behind the hung construction.)
C21_Original ==
    /\ ConstructedKindUnaffected
    /\ OtherIdentitiesEnd
    /\ [](HungUnder(HungIdentity) =>
            \A t \in WaitingUnderHung :
                groups[tasks[t].grp][tasks[t].kind] = Absent)

\* A call waits for a lock only if its kind's key was absent when it looked.
WaitersFoundKindAbsent ==
    [][\A t \in HungTasks :
          (tasks'[t].pc = "wait_kind" /\ tasks[t].pc # "wait_kind") =>
              groups[tasks'[t].grp][tasks'[t].kind] = Absent]_vars

\* C21 as amended: (a), (b), and (c) a call waits under I only if its kind
\* was not constructed when the call was made; a call that begins while the
\* construction hangs and finds its kind absent waits, and no call waiting
\* under I moves on while the construction hangs.
C21_HungConstructionBlocksNewKinds ==
    /\ ConstructedKindUnaffected
    /\ OtherIdentitiesEnd
    /\ WaitersFoundKindAbsent
    /\ [][\A t \in HungTasks :
            (/\ HungUnder(HungIdentity)
             /\ calls' = calls + 1 /\ tasks'[t].n = calls'
             /\ tasks'[t].hash = HungIdentity
             /\ groups'[tasks'[t].grp][tasks'[t].kind] = Absent)
            => tasks'[t].pc = "wait_kind"]_vars
    /\ [][\A t \in WaitingUnderHung :
            HungUnder(HungIdentity) => tasks'[t] = tasks[t]]_vars

\* With a construction hung under I and holding I's lock, a later call for a
\* kind constructed before has returned its handle.
C21_Witness ==
    \E t, u \in HungTasks :
        /\ tasks[u].pc = "creating"
        /\ handles[tasks[u].hid].state = "hung"
        /\ locks[tasks[u].lock].locked
        /\ tasks[t].n > tasks[u].n
        /\ tasks[t].pc = "done"
        /\ tasks[t].hash = HungIdentity
        /\ tasks[t].ret.tag = "handle"
        /\ handles[tasks[t].ret.id].state = "live"

====
